---- MODULE Spec2Model ----
(***************************************************************************)
(* Model of server.py (Oura MCP server): the token file, the CSRF state    *)
(* file, the OAuth callback listener (uvicorn thread), the login-URL tool  *)
(* (MCP event loop) and the authenticated GET of a metrics request         *)
(* (asyncio.to_thread worker).  The three contexts share only the two      *)
(* files, so each handler is cut into steps at its file and network calls. *)
(* The pure part of get_oura_daily_x_score (category test, date range,     *)
(* reshaping of the response) is followed in a specification of its own,   *)
(* ToolSpec, over given arguments and a given response.                    *)
(*                                                                         *)
(* Encoding.  An optional value is a sequence of length 0 (None / file     *)
(* absent) or 1.  A str is a sequence of characters.  A dict is a sequence *)
(* of <<key, value>> pairs in insertion order.  JSON text is a sequence of *)
(* chunks: <<"{">>, <<"}">>, a pair <<key, value>>, or a 1-tuple of other  *)
(* text.                                                                   *)
(***************************************************************************)
EXTENDS Integers, Sequences, FiniteSets, TLC

\* ------------------------------------------------------------------ bounds
MaxLogins == 2
MaxCallbacks == 2
MaxRequests == 2
\* network calls one metrics request may make before the model stops it
MaxCalls == 5

\* ------------------------------------------------------------------ values
None == <<>>
Some(x) == <<x>>

\* states oauthlib may generate for an authorization URL
GenStates == {<<"x">>, <<"y">>}
\* state query parameters a callback may carry (absent: None)
StateParams == {None} \cup {Some(s) : s \in GenStates \cup {<<>>, <<" ", "x">>}}
Codes == {"c1", "c2"}

\* token endpoint answers to the authorization-code exchange (raw JSON objects)
T1 == << <<"access_token", "a1">>, <<"refresh_token", "r1">> >>
TErr == << <<"error", "invalid_grant">> >>
\* tokens oauth.refresh_token returns (parsed by oauthlib, expires_at added)
T3 == << <<"access_token", "a3">>, <<"refresh_token", "r3">>, <<"expires_at", "e3">> >>
RefreshTokens == {T3}

\* ------------------------------------------------------------------ JSON
LBrace == <<"{">>
RBrace == <<"}">>

\* json.dumps of a dict
json_dumps(obj) == <<LBrace>> \o obj \o <<RBrace>>

\* whether json.loads accepts the text (one object, nothing after it)
json_valid(text) ==
    /\ Len(text) >= 2
    /\ text[1] = LBrace
    /\ text[Len(text)] = RBrace
    /\ \A i \in 2..(Len(text) - 1) : Len(text[i]) = 2

\* the value of the last pair of ps with key k (a repeated key keeps the last value)
LastVal(ps, k) ==
    LET i == CHOOSE j \in 1..Len(ps) :
                 /\ ps[j][1] = k
                 /\ \A m \in (j + 1)..Len(ps) : ps[m][1] # k
    IN ps[i][2]

RECURSIVE DictOf(_, _)
DictOf(ps, i) ==
    IF i > Len(ps) THEN <<>>
    ELSE IF \E j \in 1..(i - 1) : ps[j][1] = ps[i][1] THEN DictOf(ps, i + 1)
    ELSE << <<ps[i][1], LastVal(ps, ps[i][1])>> >> \o DictOf(ps, i + 1)

\* json.loads that stops one pair early
json_loads_short(text) == DictOf(SubSeq(text, 2, Len(text) - 2), 1)

\* json.loads of a valid text: the dict of its pairs
json_loads(text) == DictOf(SubSeq(text, 2, Len(text) - 1), 1)

\* key in dict
HasKey(obj, k) == \E i \in 1..Len(obj) : obj[i][1] = k

\* str.strip(): leading and trailing blanks removed
RECURSIVE LStrip(_)
LStrip(s) == IF s # <<>> /\ Head(s) = " " THEN LStrip(Tail(s)) ELSE s
RECURSIVE RStrip(_)
RStrip(s) == IF s # <<>> /\ s[Len(s)] = " " THEN RStrip(SubSeq(s, 1, Len(s) - 1)) ELSE s
Strip(s) == RStrip(LStrip(s))

\* ------------------------------------------------------------------ files
\* open(path, "w"): the file is created or truncated to nothing
OpenW(file) == Some(<<>>)
\* the buffered text reaches the file in one write at offset 0 when the
\* handle is closed; what another handle wrote beyond it stays
WriteAt0(file, buf) == Some(buf \o SubSeq(file[1], Len(buf) + 1, Len(file[1])))

\* load_token without the exists() test: an absent file raises
load_token_noexists(file) ==
    IF file = None THEN [kind |-> "raise", val |-> <<>>]
    ELSE IF json_valid(file[1]) THEN [kind |-> "token", val |-> json_loads(file[1])]
    ELSE [kind |-> "raise", val |-> <<>>]

\* load_token: None when the file is absent, else json.loads of its text
load_token(file) ==
    IF file = None THEN [kind |-> "none", val |-> <<>>]
    ELSE IF json_valid(file[1]) THEN [kind |-> "token", val |-> json_loads(file[1])]
    ELSE [kind |-> "raise", val |-> <<>>]

\* ------------------------------------------------------------------ provider
\* what requests.post to the token endpoint may give: None when it raises
\* (timeout, connection error), else the response body
PostBodies == {json_dumps(T1), json_dumps(TErr), << <<"<html>">> >>}
PostReplies == {None} \cup {Some(b) : b \in PostBodies}

\* what oauth.get may give: None when it raises, else status and body (the
\* code reads the body of a 429 and of a response raise_for_status lets through)
JsonBody == json_dumps(<< <<"data", "d1">> >>)
TextBody == << <<"plain text">> >>
GetReplies ==
    {None} \cup {Some([status |-> 200, text |-> b]) : b \in {JsonBody, TextBody}}
           \cup {Some([status |-> 429, text |-> b]) : b \in {JsonBody, TextBody}}
           \cup {Some([status |-> s, text |-> TextBody]) : s \in {401, 500}}

\* what oauth.refresh_token may give: None when it raises (network error,
\* invalid_grant, ...), else the new token
RefreshReplies == {None} \cup {Some(t) : t \in RefreshTokens}

\* ------------------------------------------------------------------ state
VARIABLES
    stateFile,  \* STATE_PATH: None, or Some(text)
    tokenFile,  \* TOKEN_PATH: None, or Some(JSON text)
    login,      \* get_oura_login_url in the MCP event loop
    cb,         \* the /callback request of the listener thread
    cbResp,     \* the last HTTP response the listener sent
    mr,         \* the sync_oura_get call of the worker thread
    usedState,  \* the state of the callback that succeeded since the last login URL
    nLogin, nCb, nMr,
    store,      \* history of the save_token calls (kept for the properties only)
    tool        \* a get_oura_daily_x_score call taken alone, from arguments to result

vars == <<stateFile, tokenFile, login, cb, cbResp, mr, usedState, nLogin, nCb, nMr,
          store, tool>>

\* no save_token call yet, no tool call taken alone
StoreIdle == [last |-> None, dirty |-> {}, touched |-> FALSE]
ToolIdle == [pc |-> "idle"]

\* save_token begins in thread w while the other thread is or is not inside
\* its own save_token: the file is being rewritten, and two calls that overlap
\* are both marked
save_begin(st, w, overlap) ==
    [st EXCEPT !.last = None,
               !.dirty = IF overlap THEN {"cb", "mr"} ELSE @ \ {w}]

\* save_token of thread w has written token: it is the last saved token when
\* no other save_token call overlapped with this one
save_end(st, w, token) ==
    [st EXCEPT !.last = IF w \in st.dirty THEN None ELSE Some(token),
               !.dirty = @ \ {w}]

CbIdle ==
    [pc |-> "idle", code |-> "", state |-> None, saved |-> None, posted |-> <<>>,
     token |-> None, prev |-> None, wrote |-> FALSE, ret |-> None, exc |-> None]

MrIdle ==
    [pc |-> "idle", loaded |-> None, token |-> None, fresh |-> FALSE, hist |-> <<>>,
     retried |-> FALSE, resp |-> None, new_token |-> None, prev |-> None, wrote |-> FALSE,
     ret |-> None, exc |-> None]

Init ==
    /\ stateFile = None
    /\ tokenFile = None
    /\ login = [pc |-> "idle", state |-> None]
    /\ cb = CbIdle
    /\ cbResp = [kind |-> "none", msg |-> ""]
    /\ mr = MrIdle
    /\ usedState = None
    /\ nLogin = 0
    /\ nCb = 0
    /\ nMr = 0
    /\ store = StoreIdle
    /\ tool = ToolIdle

\* ------------------------------------------------------------------ login URL
\* get_oura_login_url, up to open(STATE_PATH, "w"): the state is generated
\* and the file truncated
LoginOpen(s) ==
    /\ login.pc = "idle"
    /\ nLogin < MaxLogins
    /\ login' = [pc |-> "write", state |-> Some(s)]
    /\ stateFile' = OpenW(stateFile)
    /\ usedState' = None
    /\ nLogin' = nLogin + 1
    /\ UNCHANGED <<tokenFile, cb, cbResp, mr, nCb, nMr, store, tool>>

\* f.write(state) and the close of the with block
LoginWrite ==
    /\ login.pc = "write"
    /\ stateFile' = WriteAt0(stateFile, login.state[1])
    /\ login' = [login EXCEPT !.pc = "idle"]
    /\ UNCHANGED <<tokenFile, cb, cbResp, mr, usedState, nLogin, nCb, nMr, store, tool>>

\* ------------------------------------------------------------------ callback
\* the state check with the query parameter stripped as well
check_state_stripped(state, file) ==
    IF file = None THEN Some("FileNotFoundError")
    ELSE IF state = None \/ Strip(state[1]) # Strip(file[1]) THEN Some("Invalid OAuth state")
    ELSE None

\* process_oura_callback, the state check: the exception raised, or None
check_state(state, file) ==
    IF file = None THEN Some("FileNotFoundError")
    ELSE IF state # Some(Strip(file[1])) THEN Some("Invalid OAuth state")
    ELSE None

\* the exchange without the access_token test: any JSON object is a token
exchange_result_untested(reply) ==
    IF reply = None THEN [exc |-> Some("ConnectionError"), token |-> None]
    ELSE IF ~json_valid(reply[1]) THEN [exc |-> Some("JSONDecodeError"), token |-> None]
    ELSE [exc |-> None, token |-> Some(json_loads(reply[1]))]

\* process_oura_callback, from the token endpoint's reply to the token to save
exchange_result(reply) ==
    IF reply = None THEN [exc |-> Some("ConnectionError"), token |-> None]
    ELSE IF ~json_valid(reply[1]) THEN [exc |-> Some("JSONDecodeError"), token |-> None]
    ELSE IF ~HasKey(json_loads(reply[1]), "access_token")
         THEN [exc |-> Some("Token exchange failed"), token |-> None]
    ELSE [exc |-> None, token |-> Some(json_loads(reply[1]))]

\* callback catching only the exceptions process_oura_callback raises itself
callback_response_narrow(ret, exc) ==
    IF exc = None THEN [kind |-> "status", msg |-> ret[1]]
    ELSE IF exc[1] \in {"Invalid OAuth state", "Token exchange failed"}
         THEN [kind |-> "error", msg |-> exc[1]]
    ELSE [kind |-> "fault", msg |-> "Internal Server Error"]

\* callback: the body of the HTTP response
callback_response(ret, exc) ==
    IF exc = None THEN [kind |-> "status", msg |-> ret[1]]
    ELSE [kind |-> "error", msg |-> exc[1]]

\* the handler ends: the response goes out and the listener takes the next request
CbEnd(rec) ==
    /\ cb' = [rec EXCEPT !.pc = "idle"]
    /\ cbResp' = callback_response(rec.ret, rec.exc)

\* GET /callback?code=&state= arrives; the state file is read and compared
CbReceive(code, state) ==
    /\ cb.pc = "idle"
    /\ nCb < MaxCallbacks
    /\ nCb' = nCb + 1
    /\ LET rec == [CbIdle EXCEPT !.code = code, !.state = state,
                                 !.saved = IF stateFile = None THEN None
                                           ELSE Some(Strip(stateFile[1])),
                                 !.exc = check_state(state, stateFile)]
       IN IF rec.exc # None
          THEN CbEnd(rec)
          ELSE /\ cb' = [rec EXCEPT !.pc = "post"]
               /\ UNCHANGED cbResp
    /\ UNCHANGED <<stateFile, tokenFile, login, mr, usedState, nLogin, nMr, store, tool>>

\* requests.post(OURA_TOKEN_URL, ...), response.json() and the access_token test
CbPost(reply) ==
    /\ cb.pc = "post"
    /\ LET r == exchange_result(reply)
           rec == [cb EXCEPT !.posted = Append(@, [grant_type |-> "authorization_code",
                                                   code |-> cb.code]),
                             !.token = r.token, !.exc = r.exc]
       IN IF r.exc # None
          THEN CbEnd(rec)
          ELSE /\ cb' = [rec EXCEPT !.pc = "save_open"]
               /\ UNCHANGED cbResp
    /\ UNCHANGED <<stateFile, tokenFile, login, mr, usedState, nLogin, nCb, nMr, store, tool>>

\* save_token: write_text opens (truncates) the token file
CbSaveOpen ==
    /\ cb.pc = "save_open"
    /\ tokenFile' = OpenW(tokenFile)
    /\ cb' = [cb EXCEPT !.pc = "save_write", !.prev = tokenFile]
    /\ store' = [save_begin(store, "cb", mr.pc = "save_write")
                    EXCEPT !.touched = @ \/ mr.retried]
    /\ UNCHANGED <<stateFile, login, cbResp, mr, usedState, nLogin, nCb, nMr, tool>>

\* save_token: the text is written and the file closed; the handler returns
CbSaveWrite ==
    /\ cb.pc = "save_write"
    /\ tokenFile' = WriteAt0(tokenFile, json_dumps(cb.token[1]))
    /\ CbEnd([cb EXCEPT !.wrote = TRUE, !.ret = Some("Oura authentication successful!")])
    /\ usedState' = cb.state
    /\ store' = [save_end(store, "cb", cb.token[1]) EXCEPT !.touched = @ \/ mr.retried]
    /\ UNCHANGED <<stateFile, login, mr, nLogin, nCb, nMr, tool>>

\* ------------------------------------------------------------------ category
\* categories a caller may pass to get_oura_daily_x_score
Cats == {"readiness", "sleep", "activity", "dance", "Sleep"}
\* the categories the worker is called with: from sync_oura_get on the three
\* known ones take the same steps, so "sleep" stands for them
WorkerCats == {"sleep", "dance", "Sleep"}

\* the category test ignoring case
get_url_from_cat_nocase(cat) ==
    CASE cat = "readiness" -> Some("daily_readiness")
      [] cat \in {"sleep", "Sleep"} -> Some("daily_sleep")
      [] cat = "activity" -> Some("daily_activity")
      [] OTHER -> None

\* get_url_from_cat: the URL extension of a category, None for any other string
get_url_from_cat(cat) ==
    CASE cat = "readiness" -> Some("daily_readiness")
      [] cat = "sleep" -> Some("daily_sleep")
      [] cat = "activity" -> Some("daily_activity")
      [] OTHER -> None

\* f"Invalid category: {cat}. Choose one of readiness, sleep or activity",
\* tabulated over Cats
invalid_category_message(cat) ==
    CASE cat = "dance" -> "Invalid category: dance. Choose one of readiness, sleep or activity"
      [] cat = "Sleep" -> "Invalid category: Sleep. Choose one of readiness, sleep or activity"
      [] cat = "readiness" -> "Invalid category: readiness. Choose one of readiness, sleep or activity"
      [] cat = "sleep" -> "Invalid category: sleep. Choose one of readiness, sleep or activity"
      [] cat = "activity" -> "Invalid category: activity. Choose one of readiness, sleep or activity"

\* get_oura_daily_x_score, the answer to an unknown category
InvalidCategory(cat) == << <<"error", invalid_category_message(cat)>> >>

\* ------------------------------------------------------------------ metrics GET
NotAuthenticated == << <<"error", "User not authenticated. Run get_oura_login_url first.">> >>

\* the start with a token file that does not parse taken for no token
start_get_unreadable(t) ==
    IF t.kind \in {"raise", "none"} \/ t.val = <<>>
    THEN [pc |-> "idle", ret |-> Some(NotAuthenticated), exc |-> None]
    ELSE [pc |-> "get", ret |-> None, exc |-> None]

\* sync_oura_get, the start: what load_token gave decides how the call goes on
start_get(t) ==
    IF t.kind = "raise" THEN [pc |-> "idle", ret |-> None, exc |-> Some("JSONDecodeError")]
    ELSE IF t.kind = "none" \/ t.val = <<>>
         THEN [pc |-> "idle", ret |-> Some(NotAuthenticated), exc |-> None]
    ELSE [pc |-> "get", ret |-> None, exc |-> None]

\* get_oura_oauth_session(token): the session is built with auto_refresh_url
\* and token_updater=save_token, so oauth.get first refreshes and saves a
\* token whose expires_at has passed.  The clock is not modelled: a token that
\* carries expires_at and was not obtained in this call may have expired.
may_auto_refresh(token, fresh) == ~fresh /\ HasKey(token, "expires_at")

\* the 401 test as a loop: every 401 is refreshed and retried
should_refresh_loop(status, retried) == status = 401

\* sync_oura_get, the 401 test: it is an if that follows the first GET only
should_refresh(status, retried) == ~retried /\ status = 401

\* the end without the 429 test: a 429 reaches raise_for_status
finish_get_no429(resp) ==
    IF 400 <= resp.status /\ resp.status < 600
    THEN [ret |-> None, exc |-> Some("HTTPError")]
    ELSE IF json_valid(resp.text)
         THEN [ret |-> Some(json_loads(resp.text)), exc |-> None]
    ELSE [ret |-> None, exc |-> Some("JSONDecodeError")]

\* sync_oura_get, the end: the 429 test, raise_for_status and resp.json()
finish_get(resp) ==
    IF resp.status = 429
    THEN [ret |-> Some(<< <<"error", "rate_limited">>, <<"message", resp.text>> >>),
          exc |-> None]
    ELSE IF 400 <= resp.status /\ resp.status < 600
         THEN [ret |-> None, exc |-> Some("HTTPError")]
    ELSE IF json_valid(resp.text)
         THEN [ret |-> Some(json_loads(resp.text)), exc |-> None]
    ELSE [ret |-> None, exc |-> Some("JSONDecodeError")]

\* a tool call reaches sync_oura_get: load_token and the not-authenticated test
MrLoad ==
    /\ mr.pc = "idle"
    /\ nMr < MaxRequests
    /\ nMr' = nMr + 1
    /\ LET t == load_token(tokenFile)
           s == start_get(t)
       IN mr' = [MrIdle EXCEPT !.pc = s.pc, !.loaded = Some(t),
                               !.token = IF s.pc = "get" THEN Some(t.val) ELSE None,
                               !.ret = s.ret, !.exc = s.exc]
    /\ store' = [store EXCEPT !.touched = FALSE]
    /\ UNCHANGED <<stateFile, tokenFile, login, cb, cbResp, usedState, nLogin, nCb, tool>>

\* get_oura_daily_x_score(cat, ...): an unknown category is answered at once;
\* a known one goes on, with dates date_url accepts, to sync_oura_get
ToolCall(cat) ==
    IF get_url_from_cat(cat) = None
    THEN /\ mr.pc = "idle"
         /\ mr' = [MrIdle EXCEPT !.ret = Some(InvalidCategory(cat))]
         /\ store' = [store EXCEPT !.touched = FALSE]
         /\ UNCHANGED <<stateFile, tokenFile, login, cb, cbResp, usedState,
                        nLogin, nCb, nMr, tool>>
    ELSE MrLoad

\* oauth.get finds the token expired: the session refreshes it (token_updater
\* then saves it) before the GET is sent; a failed refresh raises out of oauth.get
MrAutoRefresh(reply) ==
    /\ mr.pc = "get"
    /\ may_auto_refresh(mr.token[1], mr.fresh)
    /\ Len(mr.hist) < MaxCalls
    /\ LET sent == [mr EXCEPT !.hist = Append(@, <<"AUTOREFRESH", IF reply = None THEN 0 ELSE 200>>)]
       IN IF reply = None
          THEN mr' = [sent EXCEPT !.pc = "idle", !.exc = Some("OAuth2Error")]
          ELSE mr' = [sent EXCEPT !.pc = "save_open", !.new_token = reply,
                                  !.token = reply, !.fresh = TRUE]
    /\ UNCHANGED <<stateFile, tokenFile, login, cb, cbResp, usedState, nLogin, nCb, nMr, store, tool>>

\* oauth.get(url, timeout=30) sends the GET, the first one or the retry, and
\* what follows it
MrGet(reply) ==
    /\ mr.pc = "get"
    /\ Len(mr.hist) < MaxCalls
    /\ LET sent == [mr EXCEPT !.hist = Append(@, <<"GET", IF reply = None THEN 0
                                                          ELSE reply[1].status>>),
                              !.resp = reply]
       IN IF reply = None
          THEN mr' = [sent EXCEPT !.pc = "idle", !.exc = Some("ConnectionError")]
          ELSE IF should_refresh(reply[1].status, mr.retried)
               THEN mr' = [sent EXCEPT !.pc = "refresh"]
               ELSE mr' = [sent EXCEPT !.pc = "idle",
                                       !.ret = finish_get(reply[1]).ret,
                                       !.exc = finish_get(reply[1]).exc]
    /\ UNCHANGED <<stateFile, tokenFile, login, cb, cbResp, usedState, nLogin, nCb, nMr, store, tool>>

\* the refresh going straight on to the retry, the new token kept in memory only
MrRefreshUnsaved(reply) ==
    /\ mr.pc = "refresh"
    /\ Len(mr.hist) < MaxCalls
    /\ LET sent == [mr EXCEPT !.hist = Append(@, <<"REFRESH", IF reply = None THEN 0 ELSE 200>>)]
       IN IF reply = None
          THEN mr' = [sent EXCEPT !.pc = "idle", !.exc = Some("OAuth2Error")]
          ELSE mr' = [sent EXCEPT !.pc = "get", !.new_token = reply,
                                  !.token = reply, !.fresh = TRUE, !.retried = TRUE]
    /\ store' = [store EXCEPT !.touched = FALSE]
    /\ UNCHANGED <<stateFile, tokenFile, login, cb, cbResp, usedState, nLogin, nCb, nMr, tool>>

\* oauth.refresh_token(OURA_TOKEN_URL, ...)
MrRefresh(reply) ==
    /\ mr.pc = "refresh"
    /\ Len(mr.hist) < MaxCalls
    /\ LET sent == [mr EXCEPT !.hist = Append(@, <<"REFRESH", IF reply = None THEN 0 ELSE 200>>)]
       IN IF reply = None
          THEN mr' = [sent EXCEPT !.pc = "idle", !.exc = Some("OAuth2Error")]
          ELSE mr' = [sent EXCEPT !.pc = "save_open", !.new_token = reply,
                                  !.token = reply, !.fresh = TRUE, !.retried = TRUE]
    /\ store' = [store EXCEPT !.touched = FALSE]
    /\ UNCHANGED <<stateFile, tokenFile, login, cb, cbResp, usedState, nLogin, nCb, nMr, tool>>

\* save_token(new_token): write_text opens (truncates) the token file
MrSaveOpen ==
    /\ mr.pc = "save_open"
    /\ tokenFile' = OpenW(tokenFile)
    /\ mr' = [mr EXCEPT !.pc = "save_write", !.prev = tokenFile, !.wrote = FALSE]
    /\ store' = save_begin(store, "mr", cb.pc = "save_write")
    /\ UNCHANGED <<stateFile, login, cb, cbResp, usedState, nLogin, nCb, nMr, tool>>

\* save_token(new_token): the text is written and the file closed; the GET is next
MrSaveWrite ==
    /\ mr.pc = "save_write"
    /\ tokenFile' = WriteAt0(tokenFile, json_dumps(mr.new_token[1]))
    /\ mr' = [mr EXCEPT !.pc = "get", !.wrote = TRUE]
    /\ store' = save_end(store, "mr", mr.new_token[1])
    /\ UNCHANGED <<stateFile, login, cb, cbResp, usedState, nLogin, nCb, nMr, tool>>

\* ------------------------------------------------------------------ specification
Login == (\E s \in GenStates : LoginOpen(s)) \/ LoginWrite

Listener ==
    \/ \E code \in Codes, state \in StateParams : CbReceive(code, state)
    \/ \E reply \in PostReplies : CbPost(reply)
    \/ CbSaveOpen
    \/ CbSaveWrite

Worker ==
    \/ \E cat \in WorkerCats : ToolCall(cat)
    \/ \E reply \in RefreshReplies : MrAutoRefresh(reply)
    \/ \E reply \in GetReplies : MrGet(reply)
    \/ \E reply \in RefreshReplies : MrRefresh(reply)
    \/ MrSaveOpen
    \/ MrSaveWrite

Next == Login \/ Listener \/ Worker

Spec == Init /\ [][Next]_vars

\* ------------------------------------------------------------------ dates
\* A date is [year, month, day].  The text of an ISO date is the tuple of its
\* three fields <<year, month, day>>; any other text is a 1-tuple.
IsLeap(y) == (y % 4 = 0 /\ y % 100 # 0) \/ y % 400 = 0

DaysIn(y, m) ==
    CASE m \in {4, 6, 9, 11} -> 30
      [] m = 2 -> IF IsLeap(y) THEN 29 ELSE 28
      [] OTHER -> 31

\* date.fromisoformat(dt): TypeError for an argument that is not a str,
\* ValueError for a text that is not a date of the calendar
fromisoformat(dt) ==
    IF dt = None THEN [exc |-> Some("TypeError"), val |-> None]
    ELSE IF Len(dt[1]) # 3 THEN [exc |-> Some("ValueError"), val |-> None]
    ELSE LET y == dt[1][1]
             m == dt[1][2]
             d == dt[1][3]
         IN IF y \in 1..9999 /\ m \in 1..12 /\ d \in 1..DaysIn(y, m)
            THEN [exc |-> None, val |-> Some([year |-> y, month |-> m, day |-> d])]
            ELSE [exc |-> Some("ValueError"), val |-> None]

\* date.isoformat()
isoformat(d) == <<d.year, d.month, d.day>>

\* d - timedelta(days=n)
RECURSIVE minus_days(_, _)
minus_days(d, n) ==
    IF n = 0 THEN d
    ELSE IF d.day > 1 THEN minus_days([d EXCEPT !.day = @ - 1], n - 1)
    ELSE IF d.month > 1
         THEN minus_days([d EXCEPT !.month = @ - 1, !.day = DaysIn(d.year, d.month - 1)], n - 1)
    ELSE minus_days([year |-> d.year - 1, month |-> 12, day |-> 31], n - 1)

\* invalid_date catching every exception
invalid_date_any(dt) ==
    [exc |-> None, val |-> fromisoformat(dt).exc # None]

\* invalid_date: True on ValueError, False on success; any other exception
\* of fromisoformat leaves the function
invalid_date(dt) ==
    LET r == fromisoformat(dt)
    IN IF r.exc = Some("ValueError") THEN [exc |-> None, val |-> TRUE]
       ELSE [exc |-> r.exc, val |-> FALSE]

\* the default range: today - 6 days .. today, as ISO texts
default_dates(today) ==
    [exc |-> None, start_date |-> Some(isoformat(minus_days(today, 6))),
     end_date |-> Some(isoformat(today))]

\* prep_dates: end_date is tested first, start_date only when end_date is a
\* date (or short-circuits); dates that pass both tests go back as given
prep_dates(start_date, end_date, today) ==
    LET e == invalid_date(end_date)
        s == invalid_date(start_date)
        raised(x) == [exc |-> x, start_date |-> None, end_date |-> None]
    IN IF e.exc # None THEN raised(e.exc)
       ELSE IF e.val THEN default_dates(today)
       ELSE IF s.exc # None THEN raised(s.exc)
       ELSE IF s.val THEN default_dates(today)
       ELSE [exc |-> None, start_date |-> start_date, end_date |-> end_date]

\* date_url: the request URL, by its parts
date_url(extn, start_date, end_date, today) ==
    LET p == prep_dates(start_date, end_date, today)
    IN IF p.exc # None THEN [exc |-> p.exc, url |-> None]
       ELSE [exc |-> None,
             url |-> Some([path |-> extn, start_date |-> p.start_date[1],
                           end_date |-> p.end_date[1]])]

\* date arguments a caller may pass: none, texts that are no dates, dates
DateArgs ==
    {None, Some(<<"last week">>), Some(<<2024, 2, 30>>),
     Some(<<2024, 2, 27>>), Some(<<2024, 3, 1>>)}
\* what date.today() may give
Todays ==
    {[year |-> 2024, month |-> 3, day |-> 3], [year |-> 2025, month |-> 1, day |-> 2]}

\* ------------------------------------------------------------------ reshaping
\* A JSON value of a parsed response carries its type: <<"null">>,
\* <<"num", n>>, <<"str", s>>, <<"obj", dict>>, <<"list", seq>>.
PyNone == <<"null">>
EmptyObj == <<"obj", <<>> >>

\* the longest list of day records a response carries
MaxDays == 2

\* dict.get(k, default)
Get(d, k, default) == IF HasKey(d, k) THEN LastVal(d, k) ELSE default

\* a record that leaves out the fields the day does not carry
score_record_sparse(day) ==
    (IF HasKey(day, "day") THEN << <<"date", LastVal(day, "day")>> >> ELSE <<>>)
    \o (IF HasKey(day, "score") THEN << <<"score", LastVal(day, "score")>> >> ELSE <<>>)
    \o (IF HasKey(day, "contributors")
        THEN << <<"contributors", LastVal(day, "contributors")>> >> ELSE <<>>)

\* the record of one day for readiness and for sleep
score_record(day) ==
    << <<"date", Get(day, "day", PyNone)>>,
       <<"score", Get(day, "score", PyNone)>>,
       <<"contributors", Get(day, "contributors", EmptyObj)>> >>

\* the record of one day for activity
activity_record(day) ==
    score_record(day) \o
    << <<"active_calories", Get(day, "active_calories", PyNone)>>,
       <<"target_calories", Get(day, "target_calories", PyNone)>>,
       <<"total_calories", Get(day, "total_calories", PyNone)>>,
       <<"steps", Get(day, "steps", PyNone)>>,
       <<"sedentary_time", Get(day, "sedentary_time", PyNone)>> >>


process_daily_readiness_to_json(data) ==
    LET days == Get(data, "data", PyNone)[2]
    IN << <<"readiness", <<"list", [i \in 1..Len(days) |-> score_record(days[i])]>> >> >>

process_daily_sleep_to_json(data) ==
    LET days == Get(data, "data", PyNone)[2]
    IN << <<"sleep", <<"list", [i \in 1..Len(days) |-> score_record(days[i])]>> >> >>

process_daily_activity_to_json(data) ==
    LET days == Get(data, "data", PyNone)[2]
    IN << <<"activity", <<"list", [i \in 1..Len(days) |-> activity_record(days[i])]>> >> >>

\* process_daily_x_to_json
process_daily_x_to_json(cat, data) ==
    CASE cat = "readiness" -> process_daily_readiness_to_json(data)
      [] cat = "sleep" -> process_daily_sleep_to_json(data)
      [] cat = "activity" -> process_daily_activity_to_json(data)
      [] OTHER -> << <<"error", <<"str", "invalid category provided to retrieve daily scores">> >> >>

\* internal_get_daily_x, from the result of make_oura_request on
internal_get_daily_x(cat, data) ==
    IF data = <<>> \/ ~HasKey(data, "data")
    THEN << <<"error", <<"str", <<"Unable to fetch Oura daily ", cat, " summary: ", data>> >> >> >>
    ELSE process_daily_x_to_json(cat, data)

\* day records of a response: complete for activity, complete for sleep,
\* without a score, with a null score, and empty
DayFull ==
    << <<"id", <<"str", "i1">> >>, <<"day", <<"str", "2024-02-27">> >>, <<"score", <<"num", 81>> >>,
       <<"contributors", <<"obj", << <<"deep_sleep", <<"num", 90>> >> >> >> >>,
       <<"active_calories", <<"num", 300>> >>, <<"target_calories", <<"num", 500>> >>,
       <<"total_calories", <<"num", 2200>> >>, <<"steps", <<"num", 7000>> >>,
       <<"sedentary_time", <<"num", 30000>> >> >>
DayScore ==
    << <<"day", <<"str", "2024-02-28">> >>, <<"score", <<"num", 70>> >>,
       <<"contributors", <<"obj", <<>> >> >> >>
DayNoScore == << <<"steps", <<"num", 12>> >>, <<"day", <<"str", "2024-02-29">> >> >>
DayNullScore == << <<"day", <<"str", "2024-03-01">> >>, <<"score", PyNone>> >>
DayRecords == {DayFull, DayScore, DayNoScore, DayNullScore, <<>>}

\* results of make_oura_request: the errors of sync_oura_get, an empty
\* object, an object without "data", and responses with 0..MaxDays records
DataResults ==
    {<<>>,
     << <<"error", <<"str", "User not authenticated. Run get_oura_login_url first.">> >> >>,
     << <<"error", <<"str", "rate_limited">> >>, <<"message", <<"str", "slow down">> >> >>,
     << <<"detail", <<"str", "no data">> >> >>}
    \cup UNION {{<< <<"data", <<"list", days>> >>, <<"next_token", PyNone>> >> :
                    days \in [1..n -> DayRecords]} : n \in 0..MaxDays}

\* ------------------------------------------------------------------ one tool call
\* get_oura_daily_x_score taken alone: its arguments, the date of the day and
\* the result of make_oura_request are given, the call is followed from the
\* category test to the value it returns
ToolInit ==
    /\ stateFile = None
    /\ tokenFile = None
    /\ login = [pc |-> "idle", state |-> None]
    /\ cb = CbIdle
    /\ cbResp = [kind |-> "none", msg |-> ""]
    /\ mr = MrIdle
    /\ usedState = None
    /\ nLogin = 0
    /\ nCb = 0
    /\ nMr = 0
    /\ store = StoreIdle
    /\ tool \in [pc : {"called"}, cat : Cats, start_date : DateArgs, end_date : DateArgs,
                 today : Todays, data : DataResults, url : {None}, out : {None},
                 exc : {None}]

\* the category test and date_url
ToolUrl ==
    /\ tool.pc = "called"
    /\ LET extn == get_url_from_cat(tool.cat)
           u == date_url(extn[1], tool.start_date, tool.end_date, tool.today)
       IN IF extn = None
          THEN tool' = [tool EXCEPT !.pc = "done", !.out = Some(InvalidCategory(tool.cat))]
          ELSE IF u.exc # None
               THEN tool' = [tool EXCEPT !.pc = "done", !.exc = u.exc]
               ELSE tool' = [tool EXCEPT !.pc = "request", !.url = u.url]
    /\ UNCHANGED <<stateFile, tokenFile, login, cb, cbResp, mr, usedState,
                   nLogin, nCb, nMr, store>>

\* make_oura_request has returned: the error wrapper or the reshaped records
ToolData ==
    /\ tool.pc = "request"
    /\ tool' = [tool EXCEPT !.pc = "done",
                            !.out = Some(internal_get_daily_x(tool.cat, tool.data))]
    /\ UNCHANGED <<stateFile, tokenFile, login, cb, cbResp, mr, usedState,
                   nLogin, nCb, nMr, store>>

ToolNext == ToolUrl \/ ToolData

ToolSpec == ToolInit /\ [][ToolNext]_vars

\* ------------------------------------------------------------------ properties
\* the sync_oura_get call has ended (returned or raised)
MrEnded == mr.pc = "idle" /\ nMr > 0
\* the callback handler has ended and its response is out
CbEnded == cb.pc = "idle" /\ nCb > 0

\* the callback carries a state that a login URL was generated with
CbGenuine == cb.state # None /\ cb.state[1] \in GenStates

Count(h, op) == Cardinality({i \in 1..Len(h) : h[i][1] = op})

\* the calls of a request after the session's own refresh, if it made one
Explicit(h) == IF h # <<>> /\ h[1][1] = "AUTOREFRESH" THEN Tail(h) ELSE h

\* C1 (as amended): in one sync_oura_get call the refresh of line 273 is
\* attempted if and only if the first GET returns 401; when it succeeds it is
\* followed by exactly one retry GET and when it fails by none; nothing
\* follows the retry even when it returns 401 again.  Besides it, only the
\* OAuth session's own refresh of an expired token can happen, at most once
\* and before the first GET.  So there are at most two GETs and at most one
\* 401-triggered refresh, and the call always ends (it returns or raises).
C1_Calls ==
    LET e == Explicit(mr.hist) IN
    /\ Count(mr.hist, "REFRESH") <= 1
    /\ Count(mr.hist, "GET") <= 2
    /\ \A i \in 2..Len(mr.hist) : mr.hist[i][1] # "AUTOREFRESH"
    /\ mr.hist # <<>> /\ mr.hist[1] = <<"AUTOREFRESH", 0>> => Len(mr.hist) = 1
    /\ Len(e) >= 1 => e[1][1] = "GET"
    /\ Len(e) >= 2 => e[1] = <<"GET", 401>> /\ e[2][1] = "REFRESH"
    /\ Len(e) >= 3 => e[2] = <<"REFRESH", 200>> /\ e[3][1] = "GET"
    /\ Len(e) <= 3
    /\ MrEnded /\ e # <<>> /\ e[1] = <<"GET", 401>> =>
          \/ Len(e) = 2 /\ e[2] = <<"REFRESH", 0>>
          \/ Len(e) = 3

\* how far a sync_oura_get call has come
Rank(m) ==
    CASE m.pc = "idle" -> 8
      [] m.pc = "get" /\ m.retried -> 7
      [] m.pc = "save_write" /\ m.retried -> 6
      [] m.pc = "save_open" /\ m.retried -> 5
      [] m.pc = "refresh" -> 4
      [] m.pc = "get" /\ m.fresh -> 3
      [] m.pc = "save_write" -> 2
      [] m.pc = "save_open" -> 1
      [] OTHER -> 0

\* a running call can always take its next step, and every step takes it
\* forward: it ends within eight steps
C1_OneRefreshOneRetry ==
    /\ [](C1_Calls /\ (mr.pc # "idle" => ENABLED Worker))
    /\ [][mr.pc # "idle" /\ mr' # mr => Rank(mr') > Rank(mr)]_vars

\* C1 witness: the retry after a successful refresh returned 401 again and the call ended
C1_Witness ==
    /\ MrEnded
    /\ mr.hist = << <<"GET", 401>>, <<"REFRESH", 200>>, <<"GET", 401>> >>
    /\ mr.exc = Some("HTTPError")

\* C1 as stated: a request refreshes if and only if its first GET returns
\* 401, and the refresh is followed by exactly one retry GET.
C1_Original ==
    LET refreshes == Count(mr.hist, "REFRESH") + Count(mr.hist, "AUTOREFRESH")
        first401 == \E i \in 1..Len(mr.hist) :
                        /\ mr.hist[i] = <<"GET", 401>>
                        /\ \A j \in 1..(i - 1) : mr.hist[j][1] # "GET"
    IN MrEnded =>
          /\ refreshes <= 1
          /\ refreshes = 1 <=> first401
          /\ refreshes = 1 => Count(mr.hist, "GET") = 2

\* C2: a metrics request whose last GET was answered by the provider ends by
\* returning structured data whatever the status and the body (an upstream
\* error for a status other than 2xx, a parse error for a body that is not
\* JSON), never by an exception leaving sync_oura_get (no caller up to the
\* tool catches one).
C2_AlwaysStructured ==
    MrEnded /\ mr.resp # None /\ mr.hist[Len(mr.hist)][1] = "GET" =>
        mr.exc = None /\ mr.ret # None

\* C3: a GET answered 429 is the last call of the request (no refresh, no
\* retry) and the request returns {"error": "rate_limited", "message": text}
\* with the response text as received.
C3_RateLimited ==
    \A i \in 1..Len(mr.hist) :
        mr.hist[i] = <<"GET", 429>> =>
            /\ i = Len(mr.hist)
            /\ mr.pc = "idle"
            /\ mr.exc = None
            /\ mr.ret = Some(<< <<"error", "rate_limited">>, <<"message", mr.resp[1].text>> >>)

\* C3 witness: a first GET answered 429 with a text body ended the request
C3_Witness ==
    /\ MrEnded
    /\ mr.hist = << <<"GET", 429>> >>
    /\ mr.ret = Some(<< <<"error", "rate_limited">>, <<"message", TextBody>> >>)

\* C4: once the login-URL requests made so far have returned, the state file
\* holds the state generated last, and a callback whose state parameter
\* differs from it ends at once with "Invalid OAuth state": no token request
\* is sent and the token file is not written.
C4_StateMismatch ==
    [][ /\ (login'.pc = "idle" /\ nLogin' > 0 => stateFile' = login'.state)
        /\ (nCb' = nCb + 1 /\ login.pc = "idle" /\ nLogin > 0 /\ cb'.state # login.state =>
               /\ cb'.pc = "idle"
               /\ cb'.exc = Some("Invalid OAuth state")
               /\ cb'.posted = <<>>
               /\ tokenFile' = tokenFile
               /\ cbResp' = [kind |-> "error", msg |-> "Invalid OAuth state"]) ]_vars

\* C4 witness: after two login URLs a callback carrying the first state was refused
C4_Witness ==
    /\ CbEnded
    /\ nLogin = 2
    /\ login = [pc |-> "idle", state |-> Some(<<"y">>)]
    /\ cb.state = Some(<<"x">>)
    /\ cb.saved = Some(<<"y">>)
    /\ cb.exc = Some("Invalid OAuth state")

\* C5: a state is consumed by the callback it lets through: with no new
\* login URL since a callback carrying state s succeeded, no callback
\* carrying s passes the state check again.
C5_StateConsumedOnce ==
    ~(/\ usedState # None
      /\ login.pc = "idle"
      /\ usedState = login.state
      /\ cb.pc \in {"post", "save_open", "save_write"}
      /\ cb.state = usedState)

\* C6: a load_token that runs while the listener is inside save_token (for a
\* callback that carried a generated state) reads a
\* complete token (the previous one or the new one), never an empty or
\* partly written file.
C6_AtomicReplace ==
    [][ nMr' = nMr + 1 /\ cb.pc = "save_write" /\ CbGenuine =>
            /\ mr'.loaded[1].kind # "raise"
            /\ mr'.loaded[1] \in {load_token(cb.prev), [kind |-> "token", val |-> cb.token[1]]} ]_vars

\* C7: when the listener's save of the exchanged token and the worker's save
\* of the refreshed token have both ended, the token file holds exactly one
\* of the two texts.
C7_LastWriterWins ==
    cb.wrote /\ mr.wrote /\ CbGenuine =>
        tokenFile \in {Some(json_dumps(cb.token[1])), Some(json_dumps(mr.new_token[1]))}

\* C8: sync_oura_get called while the token file is absent returns the
\* not-authenticated error, sends no GET and no refresh, and does not raise.
C8_NotAuthenticated ==
    [][ nMr' = nMr + 1 /\ tokenFile = None =>
            /\ mr'.pc = "idle"
            /\ mr'.ret = Some(NotAuthenticated)
            /\ mr'.exc = None
            /\ mr'.hist = <<>>
            /\ tokenFile' = None ]_vars

\* C8 witness: a request has ended not authenticated with the token file absent
C8_Witness ==
    /\ MrEnded
    /\ tokenFile = None
    /\ mr.loaded = Some([kind |-> "none", val |-> <<>>])
    /\ mr.ret = Some(NotAuthenticated)

\* C9: a callback with a valid state whose token response lacks access_token
\* fails with "Token exchange failed" and leaves the token file as it was;
\* otherwise the handler returns success with the token file holding exactly
\* the returned token.
C9_ExchangePersists ==
    [][ /\ (cb.pc = "post" /\ cb'.exc = Some("Token exchange failed") =>
               cb'.pc = "idle" /\ tokenFile' = tokenFile)
        /\ (cb.pc = "save_write" /\ cb'.pc = "idle" /\ CbGenuine =>
               /\ cb'.ret = Some("Oura authentication successful!")
               /\ tokenFile' = Some(json_dumps(cb.token[1]))) ]_vars

\* C10: a callback that fails (state mismatch or missing state, no state
\* file, network error, malformed or token-less answer) is answered
\* {error: message} with the exception's message, only a callback that saved
\* a token is answered {status: ...}, and the listener then takes the next
\* callback.
C10_ListenerReports ==
    /\ cbResp.kind \in {"none", "status", "error"}
    /\ CbEnded /\ cb.exc # None => cbResp = [kind |-> "error", msg |-> cb.exc[1]]
    /\ CbEnded /\ ~cb.wrote => cbResp.kind = "error" /\ cb.exc # None
    /\ CbEnded /\ cb.wrote => cbResp = [kind |-> "status", msg |-> "Oura authentication successful!"]
    /\ cb.pc = "idle" /\ nCb < MaxCallbacks =>
          ENABLED (\E code \in Codes, state \in StateParams : CbReceive(code, state))

\* C10 witness: the listener is exchanging a code after it answered a network
\* failure with an error
C10_Witness ==
    /\ cbResp = [kind |-> "error", msg |-> "ConnectionError"]
    /\ cb.pc = "save_open"
    /\ nCb = 2

\* C11: a callback that arrives while the state file does not exist (no login
\* URL was ever generated) fails the way a callback with an unequal state
\* does: with "Invalid OAuth state", before any token request.
C11_AbsentStateMismatch ==
    [][ nCb' = nCb + 1 /\ stateFile = None =>
            /\ cb'.pc = "idle"
            /\ cb'.posted = <<>>
            /\ cb'.exc = Some("Invalid OAuth state")
            /\ cbResp' = [kind |-> "error", msg |-> "Invalid OAuth state"] ]_vars

\* C12: get_oura_daily_x_score called with a category other than readiness,
\* sleep and activity returns at once the error that names the three valid
\* values: no token is loaded, no network call is made, nothing is raised and
\* the token file is left alone.
C12_InvalidCategory ==
    [][ \A c \in WorkerCats \ {"readiness", "sleep", "activity"} :
            ToolCall(c) =>
                /\ mr'.pc = "idle"
                /\ mr'.ret = Some(InvalidCategory(c))
                /\ mr'.exc = None
                /\ mr'.loaded = None
                /\ mr'.hist = <<>>
                /\ tokenFile' = tokenFile ]_vars

\* C12 witness: with a token saved, a call for "dance" was answered with the
\* error and loaded nothing
C12_Witness ==
    /\ store.last # None
    /\ mr.pc = "idle"
    /\ mr.loaded = None
    /\ mr.hist = <<>>
    /\ mr.ret = Some(<< <<"error",
                 "Invalid category: dance. Choose one of readiness, sleep or activity">> >>)

\* the tool call got past the category test and prep_dates has run
ToolDated == tool.pc \in {"request", "done"} /\ get_url_from_cat(tool.cat) # None

\* the text is a date of the calendar
IsDateText(dt) == dt # None /\ fromisoformat(dt).exc = None

\* date text a is before date text b
Before(a, b) ==
    \/ a[1] < b[1]
    \/ a[1] = b[1] /\ a[2] < b[2]
    \/ a[1] = b[1] /\ a[2] = b[2] /\ a[3] < b[3]

\* the range [today - 6, today] for the days of the model
IsDefaultRange(url, today) ==
    /\ url.end_date = <<today.year, today.month, today.day>>
    /\ today = [year |-> 2024, month |-> 3, day |-> 3] => url.start_date = <<2024, 2, 26>>
    /\ today = [year |-> 2025, month |-> 1, day |-> 2] => url.start_date = <<2024, 12, 27>>

\* C13: prep_dates never raises; when a bound is missing (None, the default
\* of the tool's arguments) or is no valid ISO date the range is
\* [today - 6, today]; when both bounds are valid dates in order they are
\* passed on unchanged.
C13_DefaultDates ==
    ToolDated =>
        /\ tool.exc = None
        /\ tool.url # None
        /\ ~IsDateText(tool.start_date) \/ ~IsDateText(tool.end_date) =>
               IsDefaultRange(tool.url[1], tool.today)
        /\ /\ IsDateText(tool.start_date)
           /\ IsDateText(tool.end_date)
           /\ ~Before(tool.end_date[1], tool.start_date[1])
           => /\ tool.url[1].start_date = tool.start_date[1]
              /\ tool.url[1].end_date = tool.end_date[1]

\* C14: when both bounds are valid dates and end_date is before start_date
\* the range is replaced by [today - 6, today], so the URL of the request
\* never carries an end_date before its start_date.
C14_OrderedRange ==
    ToolDated /\ tool.url # None =>
        /\ ~Before(tool.url[1].end_date, tool.url[1].start_date)
        /\ /\ IsDateText(tool.start_date)
           /\ IsDateText(tool.end_date)
           /\ Before(tool.end_date[1], tool.start_date[1])
           => IsDefaultRange(tool.url[1], tool.today)

\* the keys of an output record, the upstream key of each and the marker
\* that stands for a field the day does not carry
Shape(cat) ==
    IF cat = "activity"
    THEN <<"date", "score", "contributors", "active_calories", "target_calories",
           "total_calories", "steps", "sedentary_time">>
    ELSE <<"date", "score", "contributors">>
Upstream(k) == IF k = "date" THEN "day" ELSE k
Marker(k) == IF k = "contributors" THEN EmptyObj ELSE PyNone

\* C16: for a valid category and a response whose "data" holds n day
\* records the tool returns {category: list} with exactly n records in the
\* order received; every record has every field of the category's shape, a
\* field the day carries with the value received and a field it does not
\* carry with the marker (None; the empty object for contributors).
C16_Reshape ==
    tool.pc = "done" /\ tool.out # None /\ get_url_from_cat(tool.cat) # None
        /\ HasKey(tool.data, "data") =>
        LET days == LastVal(tool.data, "data")[2]
            out == tool.out[1]
        IN /\ Len(out) = 1
           /\ out[1][1] = tool.cat
           /\ out[1][2][1] = "list"
           /\ Len(out[1][2][2]) = Len(days)
           /\ \A i \in 1..Len(days) :
                 LET rec == out[1][2][2][i]
                 IN /\ Len(rec) = Len(Shape(tool.cat))
                    /\ \A j \in 1..Len(rec) :
                          /\ rec[j][1] = Shape(tool.cat)[j]
                          /\ rec[j][2] = IF HasKey(days[i], Upstream(rec[j][1]))
                                         THEN LastVal(days[i], Upstream(rec[j][1]))
                                         ELSE Marker(rec[j][1])

\* C16 witness: an activity response of two records, the first without
\* score and contributors, came back as two records in that order
C16_Witness ==
    /\ tool.pc = "done"
    /\ tool.cat = "activity"
    /\ tool.data = << <<"data", <<"list", <<DayNoScore, DayFull>> >> >>, <<"next_token", PyNone>> >>
    /\ tool.out # None
    /\ Len(tool.out[1][1][2][2]) = 2
    /\ tool.out[1][1][2][2][1][2] = <<"score", PyNone>>
    /\ tool.out[1][1][2][2][1][3] = <<"contributors", EmptyObj>>
    /\ tool.out[1][1][2][2][1][7] = <<"steps", <<"num", 12>> >>
    /\ tool.out[1][1][2][2][2][2] = <<"score", <<"num", 81>> >>

\* C15: a load_token that follows a save_token call with no other save_token
\* call in between (none overlapping it, none begun since) returns a token
\* equal to the one saved; a load_token while no token file exists returns
\* None.
C15_RoundTrip ==
    [][ nMr' = nMr + 1 =>
            /\ store.last # None =>
                   mr'.loaded = Some([kind |-> "token", val |-> store.last[1]])
            /\ tokenFile = None =>
                   mr'.loaded = Some([kind |-> "none", val |-> <<>>]) ]_vars

\* C15 witness: the worker saved a refreshed token after the listener had
\* saved one, and its next request loaded the refreshed token
C15_Witness ==
    /\ cb.wrote
    /\ nMr = 2
    /\ mr.hist = <<>>
    /\ store.last = Some(T3)
    /\ mr.loaded = Some([kind |-> "token", val |-> T3])

\* C17: the token a refresh returned is written to the token file before
\* the next GET (the retry after a 401) is sent, and from then on, whatever
\* the retry returns and after the request has ended, the token file holds
\* exactly the refreshed token unless the listener's save_token truncated or
\* wrote the file after the refresh returned.
C17_RefreshSavedBeforeRetry ==
    /\ mr.fresh /\ mr.pc \in {"get", "refresh", "idle"} => mr.wrote
    /\ mr.retried /\ mr.pc \in {"get", "idle"} /\ ~store.touched =>
          tokenFile = Some(json_dumps(mr.new_token[1]))

\* C17 witness: after the listener had saved a token, a request refreshed on
\* 401, its retry was answered 500 and the file holds the refreshed token
C17_Witness ==
    /\ cb.wrote
    /\ MrEnded
    /\ mr.hist = << <<"GET", 401>>, <<"REFRESH", 200>>, <<"GET", 500>> >>
    /\ mr.loaded = Some([kind |-> "token", val |-> T1])
    /\ ~store.touched
    /\ tokenFile = Some(json_dumps(T3))

\* the last call of the request is a refresh (after a 401, or the session's
\* own) that succeeded
JustRefreshed(m) ==
    /\ m.hist # <<>>
    /\ m.hist[Len(m.hist)] \in {<<"REFRESH", 200>>, <<"AUTOREFRESH", 200>>}
    /\ m.new_token # None

\* the request has made no successful refresh
NoRefresh(m) ==
    \A i \in 1..Len(m.hist) : m.hist[i] \notin {<<"REFRESH", 200>>, <<"AUTOREFRESH", 200>>}

\* C18 (as amended): the token file changes only inside the save_token of a
\* callback whose exchange returned an access_token and inside the save_token
\* that follows a successful refresh (after a 401, or the session's own
\* refresh of an expired token).  Login-URL generation changes the state
\* file and nothing else; a failing callback and a tool call that makes no
\* successful refresh (invalid category, not authenticated, rate limited,
\* answered without refresh, failed refresh) never write it.
C18_StoreWriters ==
    [][ /\ tokenFile' # tokenFile =>
              \/ /\ cb' # cb
                 /\ cb.pc \in {"save_open", "save_write"}
                 /\ cb.exc = None
                 /\ Len(cb.posted) = 1
                 /\ HasKey(cb.token[1], "access_token")
              \/ /\ mr' # mr
                 /\ mr.pc \in {"save_open", "save_write"}
                 /\ JustRefreshed(mr)
        /\ login' # login =>
              /\ tokenFile' = tokenFile
              /\ <<cb', cbResp', mr'>> = <<cb, cbResp, mr>>
        /\ cb' # cb /\ cb'.pc = "idle" /\ cb'.exc # None =>
              tokenFile' = tokenFile /\ ~cb'.wrote
        /\ mr' # mr /\ NoRefresh(mr') =>
              tokenFile' = tokenFile /\ ~mr'.wrote ]_vars

\* C18 witness: with a token saved, a second login URL, a callback refused
\* for a token-less answer and a rate-limited request left the file as it was
C18_Witness ==
    /\ nLogin = 2
    /\ login.pc = "idle"
    /\ CbEnded
    /\ cb.exc = Some("Token exchange failed")
    /\ MrEnded
    /\ mr.hist = << <<"GET", 429>> >>
    /\ tokenFile = Some(json_dumps(T1))

\* C18 as stated: a metrics request that ends not authenticated, rate
\* limited or successfully without a 401 has not written the token file.
C18_Original ==
    /\ MrEnded
    /\ mr.exc = None
    /\ \A i \in 1..Len(mr.hist) : mr.hist[i] # <<"GET", 401>>
    => ~mr.wrote

\* C19: the token file, once there, is never removed, and a metrics request
\* that starts while it is there does not get "no token" from load_token and
\* does not return the not-authenticated error.
C19_TokenStays ==
    [][ /\ tokenFile # None => tokenFile' # None
        /\ nMr' = nMr + 1 /\ tokenFile # None =>
              /\ mr'.loaded[1].kind # "none"
              /\ mr'.ret # Some(NotAuthenticated) ]_vars

\* C19 witness: after an exchange had saved a token, a request started while
\* a second callback was rewriting the file; it did not end not authenticated
C19_Witness ==
    /\ nCb = 2
    /\ cb.pc = "save_write"
    /\ cb.prev = Some(json_dumps(T1))
    /\ MrEnded
    /\ mr.loaded = Some([kind |-> "raise", val |-> <<>>])
    /\ mr.ret = None

====
